---------------------------- MODULE Spec2Model ----------------------------
(***************************************************************************)
(* A model of sidmatch.py: the extraction of student identifiers (SIDs)    *)
(* from two CSV tables, by column or from embedded filenames, and the      *)
(* comparison of the two resulting SID sets.                               *)
(*                                                                         *)
(* A Python string is modelled as a sequence of one-character strings, so  *)
(* that strip, lstrip, the two regular expressions and os.path.splitext    *)
(* are computed character by character, as the library computes them.      *)
(***************************************************************************)
EXTENDS Integers, Sequences, FiniteSets, TLC

(***************************************************************************)
(* Bounds of the model.                                                    *)
(***************************************************************************)
\* rows of a table in the single-source specification SpecRows
MaxRows == 3
\* rows of a table in the whole-run specification Spec
MaxMainRows == 3
\* highest 0-based column index the chooser may give
MaxCol == 1
\* length of the raw strings of the specification SpecSid
MaxSidLen == 9

(***************************************************************************)
(* Characters.                                                             *)
(***************************************************************************)
Digits == {"0", "1", "2", "3", "4", "5", "6", "7", "8", "9"}

LowerLetters ==
  <<"a", "b", "c", "d", "e", "f", "g", "h", "i", "j", "k", "l", "m",
    "n", "o", "p", "q", "r", "s", "t", "u", "v", "w", "x", "y", "z">>

UpperLetters ==
  <<"A", "B", "C", "D", "E", "F", "G", "H", "I", "J", "K", "L", "M",
    "N", "O", "P", "Q", "R", "S", "T", "U", "V", "W", "X", "Y", "Z">>

Range(f) == {f[i] : i \in DOMAIN f}

\* \w of the re module: letters, digits and the underscore
WordChars == Digits \cup Range(LowerLetters) \cup Range(UpperLetters) \cup {"_"}

\* the characters str.strip() removes (the ASCII ones a CSV cell can hold)
Whitespace == {" ", "\t", "\n", "\r"}

\* os.sep
Sep == "/"

\* the value Python's None, distinct from every string (the empty one included)
None == <<"None">>

(***************************************************************************)
(* String methods.                                                         *)
(***************************************************************************)
RECURSIVE LStripChars(_, _)
LStripChars(s, chars) ==
  IF s # <<>> /\ Head(s) \in chars THEN LStripChars(Tail(s), chars) ELSE s

RECURSIVE RStripChars(_, _)
RStripChars(s, chars) ==
  IF s # <<>> /\ s[Len(s)] \in chars
  THEN RStripChars(SubSeq(s, 1, Len(s) - 1), chars)
  ELSE s

\* s.strip()
strip(s) == RStripChars(LStripChars(s, Whitespace), Whitespace)

\* a faulty variant of lstrip0: removes one leading zero only
lstrip0_one(s) == IF s # <<>> /\ Head(s) = "0" THEN Tail(s) ELSE s

\* s.lstrip("0")
lstrip0(s) == LStripChars(s, {"0"})

LowerChar(c) ==
  IF \E i \in 1..26 : UpperLetters[i] = c
  THEN LowerLetters[CHOOSE i \in 1..26 : UpperLetters[i] = c]
  ELSE c

\* s.lower()
lower(s) == [i \in 1..Len(s) |-> LowerChar(s[i])]

\* s.rfind(c), 1-based, 0 when absent
RFind(s, c) ==
  IF \E i \in 1..Len(s) : s[i] = c
  THEN CHOOSE i \in 1..Len(s) : s[i] = c /\ \A j \in (i + 1)..Len(s) : s[j] # c
  ELSE 0

\* os.path.splitext(p)[1]: from the last dot of the last path component,
\* unless only dots stand between the component's start and that dot
splitext_ext(p) ==
  LET sepIndex == RFind(p, Sep)
      dotIndex == RFind(p, ".")
  IN  IF dotIndex > sepIndex
         /\ \E k \in (sepIndex + 1)..(dotIndex - 1) : p[k] # "."
      THEN SubSeq(p, dotIndex, Len(p))
      ELSE <<>>

VALID_IMAGE_EXTENSIONS ==
  { <<".", "j", "p", "g">>, <<".", "j", "p", "e", "g">>, <<".", "p", "n", "g">>,
    <<".", "t", "i", "f">>, <<".", "t", "i", "f", "f">>, <<".", "p", "d", "f">> }

(***************************************************************************)
(* validate_sid, extract_sid_from_filename, looks_like_valid_filename.     *)
(***************************************************************************)
\* the number of digits \d{7} asks for
SidDigits == 7

AllDigits(s) == \A i \in 1..Len(s) : s[i] \in Digits

\* a faulty variant of validate_sid: any run of 7 or more digits
validate_sid_loose(s) == Len(s) >= SidDigits /\ AllDigits(s)

\* re.fullmatch(r'(?:00)?\d{7}', s) is not None
validate_sid(s) ==
  \/ Len(s) = SidDigits /\ AllDigits(s)
  \/ Len(s) = SidDigits + 2 /\ s[1] = "0" /\ s[2] = "0" /\ AllDigits(s)

\* \b at the gap before text[i] (i in 1..Len(text)+1)
WordBoundary(text, i) ==
  LET before == i > 1 /\ text[i - 1] \in WordChars
      after == i <= Len(text) /\ text[i] \in WordChars
  IN  before # after

\* 00\d{7} matches at text[i]
SidAt(text, i) ==
  /\ i + SidDigits + 1 <= Len(text)
  /\ text[i] = "0"
  /\ text[i + 1] = "0"
  /\ \A k \in 2..(SidDigits + 1) : text[i + k] \in Digits

\* re.search(r'\b00\d{7}\b', text): the leftmost match, or None
extract_sid_from_filename(text) ==
  LET hits == {i \in 1..Len(text) :
                 /\ SidAt(text, i)
                 /\ WordBoundary(text, i)
                 /\ WordBoundary(text, i + SidDigits + 2)}
  IN  IF hits = {} THEN None
      ELSE LET first == CHOOSE i \in hits : \A j \in hits : i <= j
           IN  SubSeq(text, first, first + SidDigits + 1)

\* a faulty variant of looks_like_valid_filename: the extension is not looked at
looks_like_valid_filename_no_ext(value) ==
  IF value = <<>> THEN FALSE
  ELSE extract_sid_from_filename(value) # None

looks_like_valid_filename(value) ==
  IF value = <<>> THEN FALSE
  ELSE /\ lower(splitext_ext(value)) \in VALID_IMAGE_EXTENSIONS
       /\ extract_sid_from_filename(value) # None


(***************************************************************************)
(* The tables the sources are drawn from.  A table is the sequence of rows *)
(* csv.reader yields, a row a sequence of cells.                           *)
(***************************************************************************)
\* "0001234567": ten digits
Cell_0001234567 == <<"0", "0", "0", "1", "2", "3", "4", "5", "6", "7">>
\* "1234567"
Cell_1234567 == <<"1", "2", "3", "4", "5", "6", "7">>
\* "001234567"
Cell_001234567 == <<"0", "0", "1", "2", "3", "4", "5", "6", "7">>
\* "bad"
Cell_bad == <<"b", "a", "d">>
\* " 001234567 ": the padded form, with blanks around it
Cell_001234567_blanks == <<" ", "0", "0", "1", "2", "3", "4", "5", "6", "7", " ">>
\* "0000000"
Cell_0000000 == <<"0", "0", "0", "0", "0", "0", "0">>
\* "2345678"
Cell_2345678 == <<"2", "3", "4", "5", "6", "7", "8">>
\* " 003456789 "
Cell_003456789_blanks == <<" ", "0", "0", "3", "4", "5", "6", "7", "8", "9", " ">>
\* "a 003456789.PDF"
Cell_a_003456789_PDF == <<"a", " ", "0", "0", "3", "4", "5", "6", "7", "8", "9", ".", "P", "D", "F">>
\* "scan_001234567_front.pdf"
Cell_scan_underscore_pdf == <<"s", "c", "a", "n", "_", "0", "0", "1", "2", "3", "4", "5", "6", "7", "_", "f", "r", "o", "n", "t", ".", "p", "d", "f">>
\* "a 001234567.PDF"
Cell_a_001234567_PDF == <<"a", " ", "0", "0", "1", "2", "3", "4", "5", "6", "7", ".", "P", "D", "F">>
\* "scan-001234567.docx"
Cell_scan_001234567_docx == <<"s", "c", "a", "n", "-", "0", "0", "1", "2", "3", "4", "5", "6", "7", ".", "d", "o", "c", "x">>
\* "b-002345678.png"
Cell_b_002345678_png == <<"b", "-", "0", "0", "2", "3", "4", "5", "6", "7", "8", ".", "p", "n", "g">>

RowPool ==
  { <<Cell_0001234567, <<"x">>>>,
    <<Cell_1234567, <<"y">>>>,
    <<Cell_bad, <<"z">>>>,
    <<Cell_scan_underscore_pdf>>,
    <<Cell_a_001234567_PDF, Cell_001234567_blanks>>,
    <<Cell_scan_001234567_docx, Cell_0000000>>,
    <<>> }

MainRowPool ==
  { <<Cell_1234567, <<"y">>>>,
    <<Cell_2345678, Cell_b_002345678_png>>,
    <<Cell_003456789_blanks, Cell_a_003456789_PDF>> }

SeqsUpTo(S, n) == UNION {[1..k -> S] : k \in 0..n}

RowTables == SeqsUpTo(RowPool, MaxRows)

MainTables == SeqsUpTo(MainRowPool, MaxMainRows)

\* the raw strings of SpecSid
SidAlphabet == {"0", "5"}

SidStrings == SeqsUpTo(SidAlphabet, MaxSidLen)

\* what error.log may hold when a run starts: it is opened in append mode
PriorLogs ==
  { <<>>,
    <<[label |-> "FILE2", line |-> 1,
       reason |-> [text |-> "Row too short", value |-> <<>>]]>> }

(***************************************************************************)
(* The state.                                                              *)
(***************************************************************************)
VARIABLES
  pc,           \* where the run stands
  cur,          \* the source being extracted: 1 (FILE1) or 2 (FILE2)
  csv_rows,     \* the rows of the file at path
  has_header,   \* extract_sids_from_csv: has_header
  sid_col,      \* extract_sids_from_csv: sid_col, the last Column-mode answer
  fname_col,    \* extract_sids_from_csv: fname_col, the last Filename-mode answer
  mode,         \* the mode of the pass that runs or ran: "None", "Column", "Filename"
  pos,          \* rows the reader of the full pass has yielded
  sids,         \* extract_sids_from_csv: sids
  total_lines,  \* extract_sids_from_csv: total_lines
  error_log,    \* the lines of error.log
  sids1, total1, sids2, total2,   \* main: the two results
  common, only1, only2,           \* main: the comparison
  written,      \* the lists write_sid_list wrote, by name
  passes,       \* history: full passes started for this source
  inserted,     \* history: rows of this pass that reached sids.add
  log_mark,     \* history: Len(error_log) when this pass opened the log
  log_start     \* history: Len(error_log) when the run started

vars ==
  <<pc, cur, csv_rows, has_header, sid_col, fname_col, mode, pos, sids,
    total_lines, error_log, sids1, total1, sids2, total2, common, only1,
    only2, written, passes, inserted, log_mark, log_start>>

mainVars == <<sids1, total1, sids2, total2, common, only1, only2, written>>

passVars == <<mode, pos, sids, total_lines, inserted, log_mark>>

file_label == IF cur = 1 THEN "FILE1" ELSE "FILE2"

\* the rows left after `if has_header: next(reader, None)`
DataRows(rows, header) == IF header /\ rows # <<>> THEN Tail(rows) ELSE rows

Data == DataRows(csv_rows, has_header)

\* the answers prompt_column can return: -1 for "0", else n - 1
ColumnAnswers == (-1)..MaxCol

InitCommon ==
  /\ cur = 1
  /\ has_header = FALSE
  /\ sid_col = -1
  /\ fname_col = -1
  /\ mode = "None"
  /\ pos = 0
  /\ sids = {}
  /\ total_lines = 0
  /\ error_log \in PriorLogs
  /\ log_start = Len(error_log)
  /\ log_mark = Len(error_log)
  /\ sids1 = {} /\ total1 = 0 /\ sids2 = {} /\ total2 = 0
  /\ common = {} /\ only1 = {} /\ only2 = {}
  /\ written = <<>>
  /\ passes = 0
  /\ inserted = 0

Init == pc = "prompt_file" /\ csv_rows = <<>> /\ InitCommon

(***************************************************************************)
(* extract_sids_from_csv: the feasibility probes.                          *)
(***************************************************************************)
\* the element of the generator of line 172, for one row
column_probe_row(row, c) == Len(row) > c /\ validate_sid(strip(row[c + 1]))

\* the element of the generator of line 207, for one row
filename_probe_row(row, c) ==
  Len(row) > c /\ looks_like_valid_filename(strip(row[c + 1]))

\* any(... for row in reader ...) of line 172
column_probe(data, c) == \E i \in 1..Len(data) : column_probe_row(data[i], c)

\* any(... for row in reader ...) of line 207
filename_probe(data, c) == \E i \in 1..Len(data) : filename_probe_row(data[i], c)

(***************************************************************************)
(* extract_sids_from_csv: the body of the try block, for one row.  The     *)
(* result is the key given to sids.add, or the ValueError raised.          *)
(***************************************************************************)
Added(key) == [ok |-> TRUE, key |-> key, reason |-> [text |-> "", value |-> <<>>]]

Raised(text, value) ==
  [ok |-> FALSE, key |-> <<>>, reason |-> [text |-> text, value |-> value]]

column_row(row, c) ==
  IF Len(row) <= c THEN Raised("Row too short", <<>>)
  ELSE LET sid == strip(row[c + 1])
       IN  IF ~validate_sid(sid) THEN Raised("Invalid SID format: ", sid)
           ELSE Added(lstrip0(sid))

filename_row(row, c) ==
  IF Len(row) <= c THEN Raised("Row too short", <<>>)
  ELSE LET val == strip(row[c + 1])
           sid == extract_sid_from_filename(val)
           ext == lower(splitext_ext(val))
       IN  IF sid = None \/ sid = <<>> THEN Raised("No SID found in filename", <<>>)
           ELSE IF ext \notin VALID_IMAGE_EXTENSIONS
                THEN Raised("Invalid file extension: ", ext)
                ELSE Added(lstrip0(sid))

row_body(m, row, c) == IF m = "Column" THEN column_row(row, c) ELSE filename_row(row, c)

\* f"{file_label} line {total_lines}: {e}\n"
log_line(label, line, e) == [label |-> label, line |-> line, reason |-> e]

\* a faulty variant of log_write: error.log opened with mode "w" for each record
log_overwrite(log, rec) == <<rec>>

\* error_log.write(...) on a file opened with mode "a"
log_write(log, rec) == Append(log, rec)

(***************************************************************************)
(* extract_sids_from_csv: the steps.                                       *)
(***************************************************************************)
\* prompt_file: the path of a file that exists; its rows are some table of T
prompt_file(T) ==
  /\ pc = "prompt_file"
  /\ csv_rows' \in T
  /\ pc' = "has_header"
  /\ UNCHANGED <<cur, has_header, sid_col, fname_col, error_log, log_start,
                 passes>>
  /\ UNCHANGED passVars
  /\ UNCHANGED mainVars

\* has_header = prompt_yes_no(...)
prompt_has_header ==
  /\ pc = "has_header"
  /\ has_header' \in BOOLEAN
  /\ pc' = "column"
  /\ UNCHANGED <<cur, csv_rows, sid_col, fname_col, error_log, log_start,
                 passes>>
  /\ UNCHANGED passVars
  /\ UNCHANGED mainVars

\* what the pass starts from: sids = set(), total_lines = 0, the log opened
StartPass(m) ==
  /\ mode' = m
  /\ pos' = 0
  /\ sids' = {}
  /\ total_lines' = 0
  /\ inserted' = 0
  /\ log_mark' = Len(error_log)
  /\ passes' = passes + 1
  /\ pc' = "pass"

\* the value extract_sids_from_csv returns, bound by main to the source's pair
Return(s, n) ==
  /\ pc' = "returned"
  /\ IF cur = 1
     THEN sids1' = s /\ total1' = n /\ UNCHANGED <<sids2, total2>>
     ELSE sids2' = s /\ total2' = n /\ UNCHANGED <<sids1, total1>>
  /\ UNCHANGED <<common, only1, only2, written>>

\* a faulty variant of column_prompt: a rejected column leaves the loop as "0" does
column_prompt_fallthrough ==
  /\ pc = "column"
  /\ \E c \in ColumnAnswers :
       /\ sid_col' = c
       /\ IF c # -1 /\ column_probe(Data, c)
          THEN StartPass("Column")
          ELSE /\ pc' = "filename"
               /\ UNCHANGED passes
               /\ UNCHANGED passVars
  /\ UNCHANGED <<cur, csv_rows, has_header, fname_col, error_log, log_start>>
  /\ UNCHANGED mainVars

\* one turn of the first while loop: the prompt, the break, the probe
column_prompt ==
  /\ pc = "column"
  /\ \E c \in ColumnAnswers :
       /\ sid_col' = c
       /\ IF c = -1
          THEN /\ pc' = "filename"
               /\ UNCHANGED passes
               /\ UNCHANGED passVars
          ELSE IF column_probe(Data, c)
               THEN StartPass("Column")
               ELSE /\ pc' = "column"
                    /\ UNCHANGED passes
                    /\ UNCHANGED passVars
  /\ UNCHANGED <<cur, csv_rows, has_header, fname_col, error_log, log_start>>
  /\ UNCHANGED mainVars

\* one turn of the second while loop: the prompt, the return, the probe
filename_prompt ==
  /\ pc = "filename"
  /\ \E c \in ColumnAnswers :
       /\ fname_col' = c
       /\ IF c = -1
          THEN /\ Return({}, 0)
               /\ UNCHANGED passes
               /\ UNCHANGED passVars
          ELSE /\ UNCHANGED mainVars
               /\ IF filename_probe(Data, c)
                  THEN StartPass("Filename")
                  ELSE /\ pc' = "filename"
                       /\ UNCHANGED passes
                       /\ UNCHANGED passVars
  /\ UNCHANGED <<cur, csv_rows, has_header, sid_col, error_log, log_start>>

\* the column the running pass reads
pass_col == IF mode = "Column" THEN sid_col ELSE fname_col

\* a faulty variant of extract_row: total_lines counts the rows that were added
extract_row_count_added ==
  /\ pc = "pass"
  /\ pos < Len(Data)
  /\ pos' = pos + 1
  /\ LET out == row_body(mode, Data[pos + 1], pass_col)
     IN  IF out.ok
         THEN /\ total_lines' = total_lines + 1
              /\ sids' = sids \cup {out.key}
              /\ inserted' = inserted + 1
              /\ UNCHANGED error_log
         ELSE /\ total_lines' = total_lines
              /\ error_log' =
                   log_write(error_log, log_line(file_label, total_lines, out.reason))
              /\ UNCHANGED <<sids, inserted>>
  /\ UNCHANGED <<pc, cur, csv_rows, has_header, sid_col, fname_col, mode,
                 log_mark, log_start, passes>>
  /\ UNCHANGED mainVars

\* one turn of `for row in reader` of the full pass (lines 180-191, 215-230)
extract_row ==
  /\ pc = "pass"
  /\ pos < Len(Data)
  /\ pos' = pos + 1
  /\ total_lines' = total_lines + 1
  /\ LET out == row_body(mode, Data[pos + 1], pass_col)
     IN  IF out.ok
         THEN /\ sids' = sids \cup {out.key}
              /\ inserted' = inserted + 1
              /\ UNCHANGED error_log
         ELSE /\ error_log' =
                   log_write(error_log, log_line(file_label, total_lines', out.reason))
              /\ UNCHANGED <<sids, inserted>>
  /\ UNCHANGED <<pc, cur, csv_rows, has_header, sid_col, fname_col, mode,
                 log_mark, log_start, passes>>
  /\ UNCHANGED mainVars

\* the reader is exhausted: error_log.close(), return sids, total_lines
extract_return ==
  /\ pc = "pass"
  /\ pos = Len(Data)
  /\ Return(sids, total_lines)
  /\ UNCHANGED <<cur, csv_rows, has_header, sid_col, fname_col, error_log,
                 log_start, passes>>
  /\ UNCHANGED passVars

(***************************************************************************)
(* main.                                                                   *)
(***************************************************************************)
\* the call has returned and main goes on: the locals of the call are gone
ClearFrame ==
  /\ csv_rows' = <<>>
  /\ has_header' = FALSE
  /\ sid_col' = -1
  /\ fname_col' = -1
  /\ mode' = "None"
  /\ pos' = 0
  /\ sids' = {}
  /\ total_lines' = 0
  /\ inserted' = 0
  /\ log_mark' = Len(error_log)
  /\ passes' = 0
  /\ UNCHANGED <<error_log, log_start>>

\* a faulty variant of first_source_failed: main never exits early
first_source_failed_never(total) == FALSE

\* `if total1 == 0`
first_source_failed(total) == total = 0

\* after the first call: sys.exit(1), or on to the second prompt_file
main_after_first ==
  /\ pc = "returned"
  /\ cur = 1
  /\ IF first_source_failed(total1)
     THEN pc' = "exit" /\ UNCHANGED cur
     ELSE pc' = "prompt_file" /\ cur' = 2
  /\ ClearFrame
  /\ UNCHANGED mainVars

\* a faulty variant of reconcile: only2 computed from the wrong side
reconcile_swapped(a, b) == [common |-> a \cap b, only1 |-> a \ b, only2 |-> a \ b]

\* common = sids1 & sids2; only1 = sids1 - sids2; only2 = sids2 - sids1
reconcile(a, b) == [common |-> a \cap b, only1 |-> a \ b, only2 |-> b \ a]

\* after the second call: the summary and the three sets
main_compare ==
  /\ pc = "returned"
  /\ cur = 2
  /\ LET r == reconcile(sids1, sids2)
     IN  common' = r.common /\ only1' = r.only1 /\ only2' = r.only2
  /\ pc' = "ask_common"
  /\ ClearFrame
  /\ UNCHANGED <<cur, sids1, total1, sids2, total2, written>>

\* one of the three closing questions: on "y" write_sid_list(set, name) writes
\* the set's elements, one per line (their order is not modelled)
main_ask(at, name, set, then) ==
  /\ pc = at
  /\ \E yes \in BOOLEAN :
       written' = IF yes THEN Append(written, [name |-> name, sids |-> set])
                         ELSE written
  /\ pc' = then
  /\ UNCHANGED <<sids1, total1, sids2, total2, common, only1, only2>>
  /\ UNCHANGED <<cur, csv_rows, has_header, sid_col, fname_col, error_log,
                 log_start, passes>>
  /\ UNCHANGED passVars

main_ask_common == main_ask("ask_common", "common", common, "ask_unique1")

main_ask_unique1 == main_ask("ask_unique1", "unique1", only1, "ask_unique2")

main_ask_unique2 == main_ask("ask_unique2", "unique2", only2, "done")

(***************************************************************************)
(* The specifications.                                                     *)
(***************************************************************************)
\* a whole run of main
Next ==
  \/ prompt_file(MainTables)
  \/ prompt_has_header
  \/ column_prompt
  \/ filename_prompt
  \/ extract_row
  \/ extract_return
  \/ main_after_first
  \/ main_compare
  \/ main_ask_common
  \/ main_ask_unique1
  \/ main_ask_unique2

Spec == Init /\ [][Next]_vars

\* one call of extract_sids_from_csv, on the first source, over the larger tables
NextRows ==
  \/ prompt_file(RowTables)
  \/ prompt_has_header
  \/ column_prompt
  \/ filename_prompt
  \/ extract_row
  \/ extract_return

SpecRows == Init /\ [][NextRows]_vars

\* one call of extract_sids_from_csv on a headerless file of two one-cell rows:
\* a raw string and the same string behind "00"
InitSid ==
  /\ pc = "column"
  /\ InitCommon
  /\ \E s \in SidStrings :
       csv_rows = <<<<s>>, <<(<<"0", "0">> \o s)>>>>

NextSid ==
  \/ column_prompt
  \/ filename_prompt
  \/ extract_row
  \/ extract_return

SpecSid == InitSid /\ [][NextSid]_vars

(***************************************************************************)
(* What the claims speak of.                                               *)
(***************************************************************************)
\* the comparison of main has been computed
Compared == pc \in {"ask_common", "ask_unique1", "ask_unique2", "done"}

\* a full pass ran for the current source and has returned
PassReturned == pc = "returned" /\ passes = 1

\* the pair extract_sids_from_csv returned for the current source
Returned == IF cur = 1 THEN <<sids1, total1>> ELSE <<sids2, total2>>

\* the records the current pass has written
PassRecords == SubSeq(error_log, log_mark + 1, Len(error_log))

\* the records this run has written
RunRecords == SubSeq(error_log, log_start + 1, Len(error_log))

IsPrefix(s, t) == Len(s) <= Len(t) /\ SubSeq(t, 1, Len(s)) = s

\* the step is one turn of the full pass's loop
RowStep == pc = "pass" /\ pos' = pos + 1

\* C1: the comparison of main partitions sids1 \cup sids2 into three pairwise
\* disjoint sets, comparing a set with itself gives (A, {}, {}), and the two
\* sets compared are the same sets afterwards.
C1_ReconcilePartitions ==
  /\ [](Compared =>
          /\ common \cup only1 \cup only2 = sids1 \cup sids2
          /\ common \cap only1 = {}
          /\ common \cap only2 = {}
          /\ only1 \cap only2 = {}
          /\ (sids1 = sids2 => common = sids1 /\ only1 = {} /\ only2 = {}))
  /\ [][Compared' => sids1' = sids1 /\ sids2' = sids2]_vars

C1_Witness ==
  pc = "done" /\ common # {} /\ only1 # {} /\ only2 # {}

\* the two raw strings of a SpecSid table
Raw1 == csv_rows[1][1]

Raw2 == csv_rows[2][1]

\* C2: when a raw string and the same string behind "00" are both accepted by
\* validate_sid, stripping the leading zeros gives one key for both, and a
\* Column-mode pass over the two rows returns a set of exactly one element.
C2_PaddingOneKey ==
  (/\ Len(csv_rows) = 2
   /\ Raw2 = <<"0", "0">> \o Raw1
   /\ validate_sid(Raw1)
   /\ validate_sid(Raw2))
  => /\ lstrip0(Raw1) = lstrip0(Raw2)
     /\ (PassReturned /\ mode = "Column" /\ sid_col = 0
           => sids1 = {lstrip0(Raw1)} /\ Cardinality(sids1) = 1)

C2_Witness ==
  /\ PassReturned /\ mode = "Column" /\ sid_col = 0
  /\ validate_sid(Raw1) /\ validate_sid(Raw2)
  /\ Raw1 # lstrip0(Raw1)
  /\ Cardinality(sids1) = 1

\* scenario 1: the three rows, column 0, no header, the Column pass returned
Scenario1 ==
  /\ csv_rows = << <<Cell_0001234567, <<"x">>>>,
                   <<Cell_1234567, <<"y">>>>,
                   <<Cell_bad, <<"z">>>> >>
  /\ ~has_header
  /\ PassReturned /\ mode = "Column" /\ sid_col = 0

InvalidSid(line, sid) ==
  log_line("FILE1", line, [text |-> "Invalid SID format: ", value |-> sid])

\* C3, as stated: scenario 1 returns {"1234567"} and 3 lines and writes exactly
\* one failure record, the one for line 3.
C3_Original ==
  Scenario1 =>
    /\ sids1 = {Cell_1234567}
    /\ total1 = 3
    /\ PassRecords = <<InvalidSid(3, Cell_bad)>>

\* C3, amended: scenario 1 returns {"1234567"} and 3 lines and writes exactly
\* two failure records: line 1 (the ten-digit "0001234567" is not a valid SID)
\* and line 3.
C3_ScenarioTwoFailures ==
  Scenario1 =>
    /\ sids1 = {Cell_1234567}
    /\ total1 = 3
    /\ PassRecords = <<InvalidSid(1, Cell_0001234567), InvalidSid(3, Cell_bad)>>

C3_Witness == Scenario1 /\ Len(PassRecords) = 2

\* the data rows the running Filename pass over column 0 has read that hold
\* the cell "scan_001234567_front.pdf"
UnderscoreRowsRead ==
  {i \in 1..pos : /\ mode = "Filename" /\ fname_col = 0 /\ pc \in {"pass", "returned"}
                  /\ Len(Data[i]) > 0
                  /\ Data[i][1] = Cell_scan_underscore_pdf}

\* C4: in Filename mode the cell "scan_001234567_front.pdf" is usable:
\* extract_sid_from_filename returns "001234567", the extension is accepted,
\* and the pass adds the key "1234567" and logs no failure for the row.
C4_UnderscoreFilenameUsable ==
  \A i \in UnderscoreRowsRead :
    /\ extract_sid_from_filename(Cell_scan_underscore_pdf) = Cell_001234567
    /\ lower(splitext_ext(Cell_scan_underscore_pdf)) \in VALID_IMAGE_EXTENSIONS
    /\ Cell_1234567 \in sids
    /\ \A k \in 1..Len(PassRecords) : PassRecords[k].line # i

\* C5: every turn of the pass's loop adds one to total_lines and then either
\* adds one key to sids and leaves the log alone, or appends one record and
\* leaves sids alone; a row with no cell at the column gives "Row too short";
\* total_lines = rows added + records written, and every data row is read.
C5_RowAccounting ==
  /\ [][RowStep =>
          /\ total_lines' = total_lines + 1
          /\ \/ /\ inserted' = inserted + 1
                /\ error_log' = error_log
                /\ sids \subseteq sids'
                /\ Cardinality(sids' \ sids) <= 1
                /\ sids' # {}
             \/ /\ inserted' = inserted
                /\ sids' = sids
                /\ Len(error_log') = Len(error_log) + 1
                /\ IsPrefix(error_log, error_log')
          /\ (Len(Data[pos']) <= pass_col =>
                /\ sids' = sids
                /\ inserted' = inserted
                /\ error_log'[Len(error_log')].reason.text = "Row too short")]_vars
  /\ [](pc = "pass" \/ PassReturned =>
          /\ total_lines = pos
          /\ total_lines = inserted + Len(PassRecords))
  /\ [](PassReturned => Returned[2] = Len(Data))

C5_Witness ==
  /\ PassReturned
  /\ total_lines = 3
  /\ inserted = 1
  /\ \E k \in 1..Len(PassRecords) : PassRecords[k].reason.text = "Row too short"
  /\ \E k \in 1..Len(PassRecords) : PassRecords[k].reason.text # "Row too short"

\* the probe's predicate for one row, in the mode given
probe_row(m, row, c) ==
  IF m = "Column" THEN column_probe_row(row, c) ELSE filename_probe_row(row, c)

\* the probe of the mode given
probe(m, data, c) ==
  IF m = "Column" THEN column_probe(data, c) ELSE filename_probe(data, c)

\* the set a full pass over the data would return
full_pass_sids(m, data, c) ==
  {row_body(m, data[i], c).key : i \in {j \in 1..Len(data) : row_body(m, data[j], c).ok}}

\* C6: a row satisfies the probe's predicate exactly when the full pass adds
\* its SID; the probe accepts a column exactly when a pass over it returns a
\* non-empty set; every pass that runs returns a non-empty set and >= 1 lines.
C6_ProbeAgreesWithPass ==
  /\ [][RowStep =>
          (probe_row(mode, Data[pos'], pass_col) <=> inserted' = inserted + 1)]_vars
  /\ [](pc \in {"column", "filename"} =>
          \A m \in {"Column", "Filename"} : \A c \in 0..MaxCol :
            probe(m, Data, c) <=> full_pass_sids(m, Data, c) # {})
  /\ [](PassReturned => Returned[1] # {} /\ Returned[2] >= 1)

C6_Witness ==
  /\ PassReturned
  /\ mode = "Filename"
  /\ inserted = 1
  /\ \E k \in 1..Len(PassRecords) :
       PassRecords[k].reason.text = "Invalid file extension: "
  /\ \E k \in 1..Len(PassRecords) :
       PassRecords[k].reason.text = "No SID found in filename"

\* C7: a first source of zero lines ends the run at once, before the second
\* source, the comparison and the lists; a second source of zero lines does
\* not: the comparison gives ({}, sids1, {}).
C7_FirstZeroExits ==
  /\ [][pc = "returned" /\ cur = 1 /\ total1 = 0 => pc' = "exit"]_vars
  /\ [][pc # "exit"]_vars
  /\ [](pc = "exit" =>
          /\ cur = 1 /\ total1 = 0
          /\ common = {} /\ only1 = {} /\ only2 = {} /\ written = <<>>)
  /\ [](cur = 2 => total1 >= 1)
  /\ [][pc = "returned" /\ cur = 2 /\ total2 = 0 =>
          /\ Compared'
          /\ common' = {} /\ only1' = sids1 /\ only2' = {}]_vars

C7_Witness ==
  pc = "done" /\ total1 >= 1 /\ total2 = 0 /\ only1 # {} /\ Len(written) = 3

\* C8: error.log only grows, each step keeping what it held as a prefix; it
\* changes only in a turn of a pass's loop; this run's FILE1 records all come
\* before its FILE2 records; each record written names the source being read
\* and the 1-based position of the row among the data rows.
C8_AppendOnlyLog ==
  /\ [][IsPrefix(error_log, error_log')]_vars
  /\ [][error_log' # error_log =>
          /\ RowStep
          /\ pc' = "pass"
          /\ Len(error_log') = Len(error_log) + 1
          /\ LET rec == error_log'[Len(error_log')]
             IN  /\ rec.label = (IF cur = 1 THEN "FILE1" ELSE "FILE2")
                 /\ rec.line = pos'
                 /\ rec.line \in 1..Len(Data)
                 /\ ~row_body(mode, Data[rec.line], pass_col).ok
                 /\ rec.reason.text \in
                      {"Row too short", "Invalid SID format: ",
                       "No SID found in filename", "Invalid file extension: "}]_vars
  /\ [](\A i \in 1..Len(RunRecords) : \A j \in 1..Len(RunRecords) :
          RunRecords[i].label = "FILE2" /\ RunRecords[j].label = "FILE1" => j < i)
  /\ [](cur = 1 => \A i \in 1..Len(RunRecords) : RunRecords[i].label = "FILE1")

C8_Witness ==
  /\ pc = "returned"
  /\ cur = 2
  /\ log_start = 1
  /\ has_header
  /\ Len(csv_rows) = 3
  /\ \E i \in 1..Len(RunRecords) : RunRecords[i].label = "FILE1"
  /\ \E i \in 1..Len(RunRecords) :
       RunRecords[i].label = "FILE2" /\ RunRecords[i].line = 2

\* C9: no key of a SID set is empty or starts with a zero.
C9_NoEmptyKey ==
  \A k \in sids \cup sids1 \cup sids2 : k # <<>> /\ Head(k) # "0"

\* C10: Column mode is offered first and again after each rejected column;
\* Filename mode follows only the sentinel given in Column mode, and Column
\* mode is not offered again; at most one full pass runs per source; the call
\* returns after a Column pass, after a Filename pass, or with (set(), 0) on
\* the sentinel in Filename mode, and a rejected column returns nothing.
C10_ModeProtocol ==
  /\ [][pc = "has_header" => pc' = "column"]_vars
  /\ [][pc' = "column" => pc \in {"has_header", "column"}]_vars
  /\ [][pc' = "filename" => pc \in {"column", "filename"}]_vars
  /\ [][pc = "column" =>
          \/ pc' = "filename" /\ sid_col' = -1
          \/ /\ pc' = "pass" /\ mode' = "Column" /\ passes' = passes + 1
             /\ sid_col' >= 0 /\ column_probe(Data, sid_col')
          \/ /\ pc' = "column" /\ passes' = passes
             /\ sid_col' >= 0 /\ ~column_probe(Data, sid_col')]_vars
  /\ [][pc = "filename" =>
          \/ /\ pc' = "returned" /\ fname_col' = -1 /\ passes' = passes
             /\ Returned' = <<{}, 0>>
          \/ /\ pc' = "pass" /\ mode' = "Filename" /\ passes' = passes + 1
             /\ fname_col' >= 0 /\ filename_probe(Data, fname_col')
          \/ /\ pc' = "filename" /\ passes' = passes
             /\ fname_col' >= 0 /\ ~filename_probe(Data, fname_col')]_vars
  /\ [][pc' = "returned" => pc = "pass" \/ (pc = "filename" /\ fname_col' = -1)]_vars
  /\ [][pc = "pass" => pc' \in {"pass", "returned"} /\ mode' = mode]_vars
  /\ [](passes <= 1)
  /\ [](pc = "pass" => passes = 1 /\ mode \in {"Column", "Filename"})

C10_Witness ==
  /\ cur = 2
  /\ pc = "returned"
  /\ passes = 1
  /\ mode = "Filename"
  /\ sid_col = -1
  /\ fname_col = 1
  /\ ~filename_probe(Data, 0)

=============================================================================
